---- MODULE Spec2Model ----
(***************************************************************************)
(* A model of the e-Insurance backend (src/user_services): the relational  *)
(* store, the JWT helpers of utils.py and the request handlers of          *)
(* login_routes.py, admin_routes.py, policies_routes.py and                *)
(* customer_routes.py.  Every handler is one action; the store `db` maps a *)
(* table name to its set of rows.                                          *)
(*                                                                         *)
(* Time is counted in ticks, TicksPerSecond of them to a second, because   *)
(* jwt.encode stores the expiry as a whole number of seconds while the     *)
(* clock that issues and checks tokens is finer than a second.             *)
(*                                                                         *)
(* Environment assumed where the source leaves it to configuration: the    *)
(* store enforces the UNIQUE and FOREIGN KEY constraints models.py         *)
(* declares, an autoincrement key is one more than the largest key of the  *)
(* table, and request bodies already passed the pydantic schemas          *)
(* (schemas.py). The PyJWT release is not pinned: the model keeps both     *)
(* ways its releases compare exp with the clock.                           *)
(***************************************************************************)
EXTENDS Integers, Sequences, FiniteSets, TLC

VARIABLES
    now,      \* the wall clock, in ticks
    db,       \* the store: table name -> set of rows
    tokens,   \* tokens that clients hold, each with a note of how it was issued
    pending,  \* purchase requests that did their checks and have not committed
    resp,     \* the response to the request handled last at this instant
    pyjwt     \* the exp comparison of the installed PyJWT release

vars == <<now, db, tokens, pending, resp, pyjwt>>

-----------------------------------------------------------------------------
(* Bounds of the model *)

TicksPerSecond == 2
MaxTime == 4
MaxPending == 2
MaxPremium == 12
MaxAge == 35
MaxRate == 8
MaxYears == 4

\* settings.access_token_expire_minutes / refresh_token_expire_minutes; the
\* model shortens the configured lifetimes to a few seconds
access_token_expire == 1
refresh_token_expire == 2

NoId == 0
NoSub == "<no sub>"

TableNames ==
    {"admin", "employee", "insurance_agent", "customer", "insurance_plan",
     "scheme", "policy", "customer_policy", "payment", "commission"}

-----------------------------------------------------------------------------
(* Helpers *)

Max(S) == CHOOSE x \in S : \A y \in S : y <= x

\* str.lower() on the user_type strings the model sends
Lower(s) ==
    CASE s = "Admin" -> "admin"
      [] s = "CUSTOMER" -> "customer"
      [] OTHER -> s

\* The primary-key column of each principal table
IdOf(model, row) ==
    CASE model = "admin" -> row.admin_id
      [] model = "employee" -> row.employee_id
      [] model = "insurance_agent" -> row.agent_id
      [] model = "customer" -> row.customer_id

Ids(model) == {IdOf(model, r) : r \in db[model]}

\* autoincrement primary key
NextId(ids) == IF ids = {} THEN 1 ELSE Max(ids) + 1

\* passlib bcrypt: the stored hash is not the password
hash_password(password) == [scheme |-> "bcrypt", of |-> password]

verify_password(plain_password, hashed_password) ==
    hashed_password = hash_password(plain_password)

\* jwt.encode turns the datetime `exp` into whole seconds (timegm)
EncodeExp(t) == (t \div TicksPerSecond) * TicksPerSecond

Expire(token_type) ==
    IF token_type = "access"
    THEN access_token_expire * TicksPerSecond
    ELSE refresh_token_expire * TicksPerSecond

create_token(data, token_type) ==
    [sub |-> data.sub, user_id |-> data.user_id,
     exp |-> EncodeExp(now + Expire(token_type)), sig |-> "ok"]

create_tokens(data) ==
    <<create_token(data, "access"), create_token(data, "refresh")>>

\* jwt.decode raises ExpiredSignatureError: releases that take the clock as a
\* float refuse the token from its exp second on (exp <= now); releases that
\* take the clock in whole seconds refuse it one second later (exp < now)
PyJwtReleases == {"exp <= now", "exp < now"}

Expired(token) ==
    IF pyjwt = "exp <= now"
    THEN token.exp <= now
    ELSE token.exp < (now \div TicksPerSecond) * TicksPerSecond

Fail(status, detail) ==
    [status |-> status, detail |-> detail, email |-> NoSub, customer_id |-> NoId]

\* verify_user looking the subject up in both tables, whatever the role
verify_user_AnyTable(token, user_type) ==
    IF token.sig # "ok" THEN Fail(401, "Invalid token")
    ELSE IF Expired(token) THEN Fail(401, "Token has expired")
    ELSE IF token.sub = NoSub THEN Fail(401, "Invalid token: email missing")
    ELSE IF Lower(user_type) \notin {"admin", "customer"}
    THEN Fail(400, "Invalid user_type provided")
    ELSE IF ~\E u \in db["admin"] \cup db["customer"] : u.email = token.sub
    THEN Fail(403, "Access denied: User is not a valid user_type")
    ELSE [status |-> 200, detail |-> "ok", email |-> token.sub, customer_id |-> NoId]

\* verify_user with a decoder that never looks at exp
verify_user_NoExpiry(token, user_type) ==
    IF token.sig # "ok" THEN Fail(401, "Invalid token")
    ELSE IF token.sub = NoSub THEN Fail(401, "Invalid token: email missing")
    ELSE IF Lower(user_type) \notin {"admin", "customer"}
    THEN Fail(400, "Invalid user_type provided")
    ELSE LET users == {u \in db[Lower(user_type)] : u.email = token.sub} IN
         IF users = {} THEN Fail(403, "Access denied: User is not a valid user_type")
         ELSE [status |-> 200, detail |-> "ok", email |-> token.sub,
               customer_id |-> IF Lower(user_type) = "customer"
                               THEN (CHOOSE u \in users : TRUE).customer_id
                               ELSE NoId]

\* verify_user without the `if not user` check
verify_user_NoRowCheck(token, user_type) ==
    IF token.sig # "ok" THEN Fail(401, "Invalid token")
    ELSE IF Expired(token) THEN Fail(401, "Token has expired")
    ELSE IF token.sub = NoSub THEN Fail(401, "Invalid token: email missing")
    ELSE IF Lower(user_type) \notin {"admin", "customer"}
    THEN Fail(400, "Invalid user_type provided")
    ELSE LET users == {u \in db[Lower(user_type)] : u.email = token.sub} IN
         [status |-> 200, detail |-> "ok", email |-> token.sub,
          customer_id |-> IF Lower(user_type) = "customer" /\ users # {}
                          THEN (CHOOSE u \in users : TRUE).customer_id
                          ELSE NoId]

\* verify_user with the two tables exchanged
verify_user_Swapped(token, user_type) ==
    IF token.sig # "ok" THEN Fail(401, "Invalid token")
    ELSE IF Expired(token) THEN Fail(401, "Token has expired")
    ELSE IF token.sub = NoSub THEN Fail(401, "Invalid token: email missing")
    ELSE IF Lower(user_type) \notin {"admin", "customer"}
    THEN Fail(400, "Invalid user_type provided")
    ELSE LET other == IF Lower(user_type) = "admin" THEN "customer" ELSE "admin"
             users == {u \in db[other] : u.email = token.sub}
         IN
         IF users = {} THEN Fail(403, "Access denied: User is not a valid user_type")
         ELSE [status |-> 200, detail |-> "ok", email |-> token.sub,
               customer_id |-> NoId]

\* verify_user that hands out the customer_id for every role
verify_user_IdForAdmin(token, user_type) ==
    IF token.sig # "ok" THEN Fail(401, "Invalid token")
    ELSE IF Expired(token) THEN Fail(401, "Token has expired")
    ELSE IF token.sub = NoSub THEN Fail(401, "Invalid token: email missing")
    ELSE IF Lower(user_type) \notin {"admin", "customer"}
    THEN Fail(400, "Invalid user_type provided")
    ELSE LET users == {u \in db[Lower(user_type)] : u.email = token.sub}
             customers == {u \in db["customer"] : u.email = token.sub}
         IN
         IF users = {} THEN Fail(403, "Access denied: User is not a valid user_type")
         ELSE [status |-> 200, detail |-> "ok", email |-> token.sub,
               customer_id |-> IF customers # {}
                               THEN (CHOOSE u \in customers : TRUE).customer_id
                               ELSE NoId]

\* verify_user that looks the role up before it decodes the token
verify_user_RoleFirst(token, user_type) ==
    IF Lower(user_type) \notin {"admin", "customer"}
    THEN Fail(400, "Invalid user_type provided")
    ELSE LET users == {u \in db[Lower(user_type)] : u.email = token.sub} IN
         IF users = {} THEN Fail(403, "Access denied: User is not a valid user_type")
         ELSE IF token.sig # "ok" THEN Fail(401, "Invalid token")
         ELSE IF Expired(token) THEN Fail(401, "Token has expired")
         ELSE IF token.sub = NoSub THEN Fail(401, "Invalid token: email missing")
         ELSE [status |-> 200, detail |-> "ok", email |-> token.sub,
               customer_id |-> IF Lower(user_type) = "customer"
                               THEN (CHOOSE u \in users : TRUE).customer_id
                               ELSE NoId]

\* verify_user that refuses what was issued as a refresh token
verify_user_AccessOnly(token, user_type) ==
    IF token.sig # "ok" THEN Fail(401, "Invalid token")
    ELSE IF \A i \in tokens : i.tok = token => i.kind = "refresh"
    THEN Fail(401, "Invalid token")
    ELSE IF Expired(token) THEN Fail(401, "Token has expired")
    ELSE IF token.sub = NoSub THEN Fail(401, "Invalid token: email missing")
    ELSE IF Lower(user_type) \notin {"admin", "customer"}
    THEN Fail(400, "Invalid user_type provided")
    ELSE LET users == {u \in db[Lower(user_type)] : u.email = token.sub} IN
         IF users = {} THEN Fail(403, "Access denied: User is not a valid user_type")
         ELSE [status |-> 200, detail |-> "ok", email |-> token.sub,
               customer_id |-> IF Lower(user_type) = "customer"
                               THEN (CHOOSE u \in users : TRUE).customer_id
                               ELSE NoId]

\* verify_user that accepts a token only for the role it was issued to
verify_user_RoleInToken(token, user_type) ==
    IF token.sig # "ok" THEN Fail(401, "Invalid token")
    ELSE IF Expired(token) THEN Fail(401, "Token has expired")
    ELSE IF token.sub = NoSub THEN Fail(401, "Invalid token: email missing")
    ELSE IF Lower(user_type) \notin {"admin", "customer"}
    THEN Fail(400, "Invalid user_type provided")
    ELSE LET users == {u \in db[Lower(user_type)] : u.email = token.sub} IN
         IF users = {} \/ ~\E i \in tokens : i.tok = token /\ i.role = Lower(user_type)
         THEN Fail(403, "Access denied: User is not a valid user_type")
         ELSE [status |-> 200, detail |-> "ok", email |-> token.sub,
               customer_id |-> IF Lower(user_type) = "customer"
                               THEN (CHOOSE u \in users : TRUE).customer_id
                               ELSE NoId]

\* jwt.decode checks the signature, then the expiry; then the sub claim, the
\* role's table, and the row
verify_user(token, user_type) ==
    IF token.sig # "ok" THEN Fail(401, "Invalid token")
    ELSE IF Expired(token) THEN Fail(401, "Token has expired")
    ELSE IF token.sub = NoSub THEN Fail(401, "Invalid token: email missing")
    ELSE IF Lower(user_type) \notin {"admin", "customer"}
    THEN Fail(400, "Invalid user_type provided")
    ELSE LET users == {u \in db[Lower(user_type)] : u.email = token.sub} IN
         IF users = {} THEN Fail(403, "Access denied: User is not a valid user_type")
         ELSE [status |-> 200, detail |-> "ok", email |-> token.sub,
               customer_id |-> IF Lower(user_type) = "customer"
                               THEN (CHOOSE u \in users : TRUE).customer_id
                               ELSE NoId]

\* The clients of the service; each holds one token at most
Clients == {"client1", "client2"}

\* The clients keep any of the tokens a response gives them
Keep(new) ==
    \E kept \in SUBSET new :
        /\ Cardinality(tokens \cup kept) <= Cardinality(Clients)
        /\ tokens' = tokens \cup kept

Issued(token, kind, role, row) ==
    [tok |-> token, iat |-> now, kind |-> kind, role |-> role, snap |-> row]

NoResponse == [op |-> "none", status |-> 0, detail |-> ""]

-----------------------------------------------------------------------------
(* The store's constraints: UNIQUE(email), UNIQUE(username) on the four     *)
(* principal tables; FOREIGN KEY customer.agent_id                          *)

\* A store without the UNIQUE constraint on email
UniqueOk_UsernameOnly(model, row) ==
    \A r \in db[model] :
        IdOf(model, r) # IdOf(model, row) => r.username # row.username

UniqueOk(model, row) ==
    \A r \in db[model] :
        IdOf(model, r) # IdOf(model, row) =>
            r.email # row.email /\ r.username # row.username

AgentFkOk(agent_id) ==
    agent_id = NoId \/ agent_id \in Ids("insurance_agent")

NewUser(model, id, user_data, hashed) ==
    CASE model = "admin" ->
            [admin_id |-> id, email |-> user_data.email, password |-> hashed,
             username |-> user_data.username, full_name |-> user_data.full_name]
      [] model = "employee" ->
            [employee_id |-> id, email |-> user_data.email, password |-> hashed,
             username |-> user_data.username, full_name |-> user_data.full_name]
      [] model = "insurance_agent" ->
            [agent_id |-> id, email |-> user_data.email, password |-> hashed,
             username |-> user_data.username, full_name |-> user_data.full_name]

NewCustomer(id, user, hashed) ==
    [customer_id |-> id, email |-> user.email, password |-> hashed,
     full_name |-> user.full_name, username |-> user.username,
     date_of_birth |-> user.date_of_birth, agent_id |-> user.agent_id]

\* to_dict that returns the row as it is stored
to_dict_AllColumns(model, row) == row

\* to_dict: every column but the password
to_dict(model, row) ==
    [c \in (DOMAIN row) \ {"password"} |-> row[c]]

-----------------------------------------------------------------------------
(* login_routes.py *)

register_user(user_data, user_type) ==
    LET model == Lower(user_type)
        failed(detail) ==
            /\ resp' = [op |-> "register_user", user_type |-> user_type,
                        email |-> user_data.email, status |-> 500,
                        detail |-> detail]
            /\ UNCHANGED <<pyjwt, now, db, tokens, pending>>
    IN
    IF model \notin {"admin", "employee", "insurance_agent"}
    THEN \* HTTPException(400, "Invalid user type"), caught by `except Exception`
         failed("Internal server error")
    ELSE IF \E r \in db[model] : r.email = user_data.email
    THEN \* HTTPException(400, "Email already registered"), caught the same way
         failed("Internal server error")
    ELSE LET db_user == NewUser(model, NextId(Ids(model)), user_data,
                                hash_password(user_data.password))
             access_token == create_token([sub |-> db_user.email, user_id |-> NoId],
                                          "access")
         IN
         IF ~UniqueOk(model, db_user)
         THEN \* IntegrityError at commit: rollback, 500
              failed("Internal server error")
         ELSE /\ db' = [db EXCEPT ![model] = @ \cup {db_user}]
              /\ Keep({Issued(access_token, "access", model, db_user)})
              /\ resp' = [op |-> "register_user", user_type |-> user_type,
                          email |-> user_data.email, status |-> 201,
                          detail |-> "registered successfully",
                          data |-> to_dict(model, db_user),
                          access_token |-> access_token]
              /\ UNCHANGED <<pyjwt, now, pending>>

register_customer(user) ==
    LET failed(detail) ==
            /\ resp' = [op |-> "register_customer", user_type |-> "customer",
                        email |-> user.email, status |-> 500, detail |-> detail]
            /\ UNCHANGED <<pyjwt, now, db, tokens, pending>>
    IN
    IF \E r \in db["customer"] : r.email = user.email
    THEN \* HTTPException(400, "Email already registered"), caught by `except Exception`
         failed("Internal server error")
    ELSE LET db_user == NewCustomer(NextId(Ids("customer")), user,
                                    hash_password(user.password))
             access_token == create_token([sub |-> db_user.email, user_id |-> NoId],
                                          "access")
         IN
         IF ~(UniqueOk("customer", db_user) /\ AgentFkOk(db_user.agent_id))
         THEN failed("Internal server error")
         ELSE /\ db' = [db EXCEPT !["customer"] = @ \cup {db_user}]
              /\ Keep({Issued(access_token, "access", "customer", db_user)})
              /\ resp' = [op |-> "register_customer", user_type |-> "customer",
                          email |-> user.email, status |-> 201,
                          detail |-> "Customer registered successfully",
                          data |-> to_dict("customer", db_user),
                          access_token |-> access_token]
              /\ UNCHANGED <<pyjwt, now, pending>>

\* register_customer in two steps, for requests served at the same time (each
\* request has its own session): the email query, lines 95-98 ...
register_customer_check(user) ==
    /\ Cardinality(pending) < MaxPending
    /\ ~\E r \in db["customer"] : r.email = user.email
    /\ pending' = pending \cup {[rid |-> NextId({r.rid : r \in pending}),
                                 user |-> user]}
    /\ resp' = NoResponse
    /\ UNCHANGED <<pyjwt, now, db, tokens>>

\* ... and the insert, commit and response, lines 101-136; the store refuses
\* the commit (IntegrityError, answered with 500) when a constraint is broken
register_customer_commit(request) ==
    LET user == request.user
        db_user == NewCustomer(NextId(Ids("customer")), user,
                               hash_password(user.password))
        access_token == create_token([sub |-> db_user.email, user_id |-> NoId],
                                     "access")
    IN
    /\ request \in pending
    /\ pending' = pending \ {request}
    /\ IF ~(UniqueOk("customer", db_user) /\ AgentFkOk(db_user.agent_id))
       THEN /\ resp' = [op |-> "register_customer", user_type |-> "customer",
                        email |-> user.email, username |-> user.username,
                        status |-> 500, detail |-> "Internal server error"]
            /\ UNCHANGED <<pyjwt, now, db, tokens>>
       ELSE /\ db' = [db EXCEPT !["customer"] = @ \cup {db_user}]
            /\ Keep({Issued(access_token, "access", "customer", db_user)})
            /\ resp' = [op |-> "register_customer", user_type |-> "customer",
                        email |-> user.email, username |-> user.username,
                        status |-> 201,
                        detail |-> "Customer registered successfully",
                        data |-> to_dict("customer", db_user),
                        access_token |-> access_token]
            /\ UNCHANGED <<pyjwt, now>>

login_user(user_data, user_type) ==
    LET model == Lower(user_type)
        failed(detail) ==
            /\ resp' = [op |-> "login_user", user_type |-> user_type,
                        email |-> user_data.email, status |-> 500, detail |-> detail]
            /\ UNCHANGED <<pyjwt, now, db, tokens, pending>>
    IN
    IF model \notin {"admin", "employee", "customer", "insurance_agent"}
    THEN failed("Internal server error")
    ELSE LET found == {r \in db[model] : r.email = user_data.email} IN
         IF found = {} \/ ~verify_password(user_data.password,
                                           (CHOOSE r \in found : TRUE).password)
         THEN \* HTTPException(400, "Invalid email or password"), caught by
              \* `except Exception`
              failed("Internal server error")
         ELSE LET db_user == CHOOSE r \in found : TRUE
                  pair == create_tokens([sub |-> db_user.email,
                                         user_id |-> IdOf(model, db_user)])
              IN
              /\ Keep({Issued(pair[1], "access", model, db_user),
                    Issued(pair[2], "refresh", model, db_user)})
              /\ resp' = [op |-> "login_user", user_type |-> user_type,
                          email |-> user_data.email, status |-> 200,
                          detail |-> "login successful",
                          data |-> to_dict(model, db_user),
                          access_token |-> pair[1], refresh_token |-> pair[2]]
              /\ UNCHANGED <<pyjwt, now, db, pending>>

-----------------------------------------------------------------------------
(* admin_routes.py *)

\* A handler's failure: nothing is written
Refuse(op, token, status, detail) ==
    /\ resp' = [op |-> op, token |-> token, status |-> status, detail |-> detail]
    /\ UNCHANGED <<pyjwt, now, db, tokens, pending>>

\* create_insurance_plan, create_scheme, create_policy catch every Exception,
\* the HTTPException they raise themselves included, and answer 500
create_insurance_plan(plan_data, token) ==
    LET auth == verify_user(token, "admin") IN
    IF auth.status # 200
    THEN Refuse("create_insurance_plan", token, 500, "Internal server error")
    ELSE IF \E p \in db["insurance_plan"] : p.plan_name = plan_data.plan_name
    THEN Refuse("create_insurance_plan", token, 500, "Internal server error")
    ELSE LET new_plan == [plan_id |-> NextId({p.plan_id : p \in db["insurance_plan"]}),
                          plan_name |-> plan_data.plan_name,
                          plan_details |-> plan_data.plan_details]
         IN
         /\ db' = [db EXCEPT !["insurance_plan"] = @ \cup {new_plan}]
         /\ resp' = [op |-> "create_insurance_plan", token |-> token, status |-> 201,
                     detail |-> "Insurance plan created successfully",
                     data |-> new_plan]
         /\ UNCHANGED <<pyjwt, now, tokens, pending>>

\* The same handler in two steps, for requests served at the same time (each
\* request has its own session): the token and duplicate checks, lines 20-27 ...
create_insurance_plan_check(plan_data, token) ==
    /\ Cardinality(pending) < MaxPending
    /\ verify_user(token, "admin").status = 200
    /\ ~\E p \in db["insurance_plan"] : p.plan_name = plan_data.plan_name
    /\ pending' = pending \cup
            {[rid |-> NextId({r.rid : r \in pending}), token |-> token,
              plan_data |-> plan_data]}
    /\ resp' = NoResponse
    /\ UNCHANGED <<pyjwt, now, db, tokens>>

\* ... and the insert and commit, lines 30-43; insurance_plan has no UNIQUE
\* constraint on plan_name
create_insurance_plan_commit(request) ==
    /\ request \in pending
    /\ pending' = pending \ {request}
    /\ LET new_plan == [plan_id |-> NextId({p.plan_id : p \in db["insurance_plan"]}),
                        plan_name |-> request.plan_data.plan_name,
                        plan_details |-> request.plan_data.plan_details]
       IN
       /\ db' = [db EXCEPT !["insurance_plan"] = @ \cup {new_plan}]
       /\ resp' = [op |-> "create_insurance_plan", token |-> request.token,
                   status |-> 201,
                   detail |-> "Insurance plan created successfully",
                   data |-> new_plan]
    /\ UNCHANGED <<pyjwt, now, tokens>>

create_scheme(scheme_data, token) ==
    LET auth == verify_user(token, "admin") IN
    IF auth.status # 200
    THEN Refuse("create_scheme", token, 500, "Internal server error")
    ELSE IF \E s \in db["scheme"] : s.scheme_name = scheme_data.scheme_name
    THEN Refuse("create_scheme", token, 500, "Internal server error")
    ELSE IF scheme_data.plan_id \notin {p.plan_id : p \in db["insurance_plan"]}
    THEN \* FOREIGN KEY scheme.plan_id: IntegrityError, rollback
         Refuse("create_scheme", token, 500, "Internal server error")
    ELSE LET new_scheme == [scheme_id |-> NextId({s.scheme_id : s \in db["scheme"]}),
                            scheme_name |-> scheme_data.scheme_name,
                            scheme_details |-> scheme_data.scheme_details,
                            plan_id |-> scheme_data.plan_id]
         IN
         /\ db' = [db EXCEPT !["scheme"] = @ \cup {new_scheme}]
         /\ resp' = [op |-> "create_scheme", token |-> token, status |-> 201,
                     detail |-> "Scheme created successfully", data |-> new_scheme]
         /\ UNCHANGED <<pyjwt, now, tokens, pending>>

\* create_policy that replaces a policy of the same name by the new terms
create_policy_Upsert(policy_data, token) ==
    LET auth == verify_user(token, "admin") IN
    IF auth.status # 200
    THEN Refuse("create_policy", token, 500, "Internal server error")
    ELSE IF policy_data.scheme_id \notin {s.scheme_id : s \in db["scheme"]}
    THEN \* FOREIGN KEY policy.scheme_id: IntegrityError, rollback
         Refuse("create_policy", token, 500, "Internal server error")
    ELSE LET new_policy == [policy_id |-> NextId({p.policy_id : p \in db["policy"]}),
                            scheme_id |-> policy_data.scheme_id,
                            policy_details |-> policy_data.policy_details,
                            premium |-> policy_data.premium,
                            date_issued |-> policy_data.date_issued,
                            maturity_period |-> policy_data.maturity_period,
                            policy_lapse_date |-> policy_data.policy_lapse_date]
         IN
         /\ db' = [db EXCEPT !["policy"] =
                      {p \in @ : p.policy_details # policy_data.policy_details}
                          \cup {new_policy}]
         /\ resp' = [op |-> "create_policy", token |-> token, status |-> 201,
                     detail |-> "policy created successfully",
                     policy_data |-> policy_data, data |-> new_policy]
         /\ UNCHANGED <<pyjwt, now, tokens, pending>>

create_policy(policy_data, token) ==
    LET auth == verify_user(token, "admin") IN
    IF auth.status # 200
    THEN Refuse("create_policy", token, 500, "Internal server error")
    ELSE IF \E p \in db["policy"] : p.policy_details = policy_data.policy_details
    THEN Refuse("create_policy", token, 500, "Internal server error")
    ELSE IF policy_data.scheme_id \notin {s.scheme_id : s \in db["scheme"]}
    THEN \* FOREIGN KEY policy.scheme_id: IntegrityError, rollback
         Refuse("create_policy", token, 500, "Internal server error")
    ELSE LET new_policy == [policy_id |-> NextId({p.policy_id : p \in db["policy"]}),
                            scheme_id |-> policy_data.scheme_id,
                            policy_details |-> policy_data.policy_details,
                            premium |-> policy_data.premium,
                            date_issued |-> policy_data.date_issued,
                            maturity_period |-> policy_data.maturity_period,
                            policy_lapse_date |-> policy_data.policy_lapse_date]
         IN
         /\ db' = [db EXCEPT !["policy"] = @ \cup {new_policy}]
         /\ resp' = [op |-> "create_policy", token |-> token, status |-> 201,
                     detail |-> "policy created successfully",
                     policy_data |-> policy_data, data |-> new_policy]
         /\ UNCHANGED <<pyjwt, now, tokens, pending>>

\* create_employee, create_insurance_agent: HTTPException is re-raised as it is
CreateUser(op, model, user_data, token) ==
    LET auth == verify_user(token, "admin")
        refuse(status, detail) ==
            /\ resp' = [op |-> op, token |-> token, email |-> user_data.email,
                        status |-> status, detail |-> detail]
            /\ UNCHANGED <<pyjwt, now, db, tokens, pending>>
    IN
    IF auth.status # 200
    THEN refuse(auth.status, auth.detail)
    ELSE IF \E r \in db[model] : r.email = user_data.email
    THEN refuse(400, "Email already registered")
    ELSE LET row == NewUser(model, NextId(Ids(model)), user_data,
                            hash_password(user_data.password))
         IN
         IF ~UniqueOk(model, row)
         THEN refuse(500, "Failed to create")
         ELSE /\ db' = [db EXCEPT ![model] = @ \cup {row}]
              /\ resp' = [op |-> op, token |-> token, email |-> user_data.email,
                          status |-> 201,
                          detail |-> "created by Admin successfully",
                          data |-> to_dict(model, row)]
              /\ UNCHANGED <<pyjwt, now, tokens, pending>>

create_employee(employee_data, token) ==
    CreateUser("create_employee", "employee", employee_data, token)

create_insurance_agent(insurance_agent_data, token) ==
    CreateUser("create_insurance_agent", "insurance_agent", insurance_agent_data, token)

create_customer(customer_data, token) ==
    LET auth == verify_user(token, "admin")
        refuse(status, detail) ==
            /\ resp' = [op |-> "create_customer", token |-> token,
                        email |-> customer_data.email,
                        status |-> status, detail |-> detail]
            /\ UNCHANGED <<pyjwt, now, db, tokens, pending>>
    IN
    IF auth.status # 200
    THEN refuse(auth.status, auth.detail)
    ELSE IF \E r \in db["customer"] : r.email = customer_data.email
    THEN refuse(400, "Email already registered")
    ELSE LET row == NewCustomer(NextId(Ids("customer")), customer_data,
                                hash_password(customer_data.password))
         IN
         IF ~(UniqueOk("customer", row) /\ AgentFkOk(row.agent_id))
         THEN refuse(500, "Failed to create customer")
         ELSE /\ db' = [db EXCEPT !["customer"] = @ \cup {row}]
              /\ resp' = [op |-> "create_customer", token |-> token,
                          email |-> customer_data.email, status |-> 201,
                          detail |-> "Customer created by Admin successfully",
                          data |-> to_dict("customer", row)]
              /\ UNCHANGED <<pyjwt, now, tokens, pending>>

\* update_*: every field of the body is set on the row, the password hashed
UpdateUser(op, model, id, data, token) ==
    LET auth == verify_user(token, "admin")
        found == {r \in db[model] : IdOf(model, r) = id}
    IN
    IF auth.status # 200
    THEN Refuse(op, token, auth.status, auth.detail)
    ELSE IF found = {}
    THEN Refuse(op, token, 404, "not found")
    ELSE LET old == CHOOSE r \in found : TRUE
             row == [c \in DOMAIN old |->
                        IF c = "password" THEN hash_password(data.password)
                        ELSE IF c \in DOMAIN data THEN data[c]
                        ELSE old[c]]
         IN
         IF ~(UniqueOk(model, row)
              /\ (model = "customer" => AgentFkOk(row.agent_id)))
         THEN \* IntegrityError at commit
              Refuse(op, token, 500, "Failed to update")
         ELSE /\ db' = [db EXCEPT ![model] = (@ \ {old}) \cup {row}]
              /\ resp' = [op |-> op, token |-> token, status |-> 200,
                          detail |-> "updated by admin successfully",
                          data |-> to_dict(model, row)]
              /\ UNCHANGED <<pyjwt, now, tokens, pending>>

update_employee(employee_id, employee_data, token) ==
    UpdateUser("update_employee", "employee", employee_id, employee_data, token)

update_insurance_agent(insurance_agent_id, insurance_agent_data, token) ==
    UpdateUser("update_insurance_agent", "insurance_agent", insurance_agent_id,
               insurance_agent_data, token)

update_customer(customer_id, customer_data, token) ==
    UpdateUser("update_customer", "customer", customer_id, customer_data, token)

delete_employee(employee_id, token) ==
    LET auth == verify_user(token, "admin")
        found == {r \in db["employee"] : r.employee_id = employee_id}
    IN
    IF auth.status # 200
    THEN Refuse("delete_employee", token, auth.status, auth.detail)
    ELSE IF found = {}
    THEN Refuse("delete_employee", token, 404, "Employee not found.")
    ELSE /\ db' = [db EXCEPT !["employee"] = @ \ found]
         /\ resp' = [op |-> "delete_employee", token |-> token, status |-> 200,
                     detail |-> "Employee deleted successfully"]
         /\ UNCHANGED <<pyjwt, now, tokens, pending>>

\* The ORM sets customer.agent_id to NULL on the agent's customers (relationship
\* InsuranceAgent.customers, no cascade); commission.agent_id is a plain FOREIGN KEY
delete_insurance_agent(insurance_agent_id, token) ==
    LET auth == verify_user(token, "admin")
        found == {r \in db["insurance_agent"] : r.agent_id = insurance_agent_id}
    IN
    IF auth.status # 200
    THEN Refuse("delete_insurance_agent", token, auth.status, auth.detail)
    ELSE IF found = {}
    THEN Refuse("delete_insurance_agent", token, 404, "Insurance Agent not found.")
    ELSE IF \E c \in db["commission"] : c.agent_id = insurance_agent_id
    THEN Refuse("delete_insurance_agent", token, 500, "Failed to delete Insurance agent.")
    ELSE /\ db' = [db EXCEPT
                     !["insurance_agent"] = @ \ found,
                     !["customer"] =
                         {IF c.agent_id = insurance_agent_id
                          THEN [c EXCEPT !.agent_id = NoId] ELSE c : c \in @}]
         /\ resp' = [op |-> "delete_insurance_agent", token |-> token, status |-> 200,
                     detail |-> "Insurance Agent deleted successfully"]
         /\ UNCHANGED <<pyjwt, now, tokens, pending>>

\* delete_customer that commits the delete before it fails
delete_customer_DeleteThenFail(customer_id, token) ==
    LET auth == verify_user(token, "admin")
        answer(status, detail) ==
            resp' = [op |-> "delete_customer", token |-> token,
                     customer_id |-> customer_id,
                     status |-> status, detail |-> detail]
        refuse(status, detail) ==
            /\ answer(status, detail)
            /\ UNCHANGED <<pyjwt, now, db, tokens, pending>>
    IN
    IF auth.status # 200
    THEN refuse(auth.status, auth.detail)
    ELSE IF ~\E r \in db["customer"] : r.customer_id = customer_id
    THEN refuse(404, "Customer not found.")
    ELSE /\ db' = [db EXCEPT !["customer"] =
                      {r \in @ : r.customer_id # customer_id}]
         /\ answer(500, "Failed to delete customer")
         /\ UNCHANGED <<pyjwt, now, tokens, pending>>

\* Policy has no customer_id column: Policy.customer_id raises AttributeError,
\* which `except Exception` turns into 500
delete_customer(customer_id, token) ==
    LET auth == verify_user(token, "admin")
        refuse(status, detail) ==
            /\ resp' = [op |-> "delete_customer", token |-> token,
                        customer_id |-> customer_id,
                        status |-> status, detail |-> detail]
            /\ UNCHANGED <<pyjwt, now, db, tokens, pending>>
    IN
    IF auth.status # 200
    THEN refuse(auth.status, auth.detail)
    ELSE IF ~\E r \in db["customer"] : r.customer_id = customer_id
    THEN refuse(404, "Customer not found.")
    ELSE \* Policy.customer_id == customer_id: AttributeError before db.delete
         refuse(500, "Failed to delete customer")

calculate_commission(commission_details, token) ==
    LET auth == verify_user(token, "admin")
        refuse(status, detail) ==
            /\ resp' = [op |-> "calculate_commission", token |-> token,
                        agent_id |-> commission_details.agent_id,
                        commission_rate |-> commission_details.commission_rate,
                        status |-> status, detail |-> detail]
            /\ UNCHANGED <<pyjwt, now, db, tokens, pending>>
    IN
    IF auth.status # 200
    THEN refuse(auth.status, auth.detail)
    ELSE IF ~\E a \in db["insurance_agent"] : a.agent_id = commission_details.agent_id
    THEN refuse(404, "Insurance agent not found")
    ELSE IF ~\E c \in db["customer"] : c.agent_id = commission_details.agent_id
    THEN refuse(404, "No customers found for this agent")
    ELSE \* Policy.customer_id.in_(...): AttributeError
         refuse(500, "Internal server error")

-----------------------------------------------------------------------------
(* policies_routes.py *)

Min(S) == CHOOSE x \in S : \A y \in S : x <= y

\* The rows of a query come in primary-key order
RECURSIVE Ascending(_)
Ascending(S) == IF S = {} THEN <<>> ELSE <<Min(S)>> \o Ascending(S \ {Min(S)})

RECURSIVE Concat(_)
Concat(ss) == IF ss = <<>> THEN <<>> ELSE Head(ss) \o Concat(Tail(ss))

PolicyById(policy_id) == CHOOSE p \in db["policy"] : p.policy_id = policy_id

\* .offset(offset).limit(size)
OffsetLimit(rows, offset, size) ==
    SubSeq(rows, offset + 1, IF offset + size < Len(rows) THEN offset + size ELSE Len(rows))

\* Policy LEFT OUTER JOIN CustomerPolicy: one row per assignment, and one row
\* with customer_id NULL for a policy that nobody bought
JoinRows(policy_id) ==
    LET cps == {cp \in db["customer_policy"] : cp.policy_id = policy_id}
        ids == Ascending({cp.id : cp \in cps})
    IN
    IF cps = {} THEN <<[policy_id |-> policy_id, customer_id |-> NoId]>>
    ELSE [i \in 1..Len(ids) |->
            [policy_id |-> policy_id,
             customer_id |-> (CHOOSE cp \in cps : cp.id = ids[i]).customer_id]]

\* get_policies takes no token: `caller` is the credential the request came
\* with, which the handler never looks at
get_policies(user_type, page, size, caller) ==
    LET ut == Lower(user_type)
        offset == (page - 1) * size
        policy_ids == Ascending({p.policy_id : p \in db["policy"]})
        total == Cardinality(db["policy"])
        total_pages == (total + size - 1) \div size
        answer(status, detail, data) ==
            /\ resp' = [op |-> "get_policies", user_type |-> user_type, token |-> caller,
                        status |-> status, detail |-> detail, current_page |-> page,
                        page_size |-> size, total_pages |-> total_pages, data |-> data]
            /\ UNCHANGED <<pyjwt, now, db, tokens, pending>>
    IN
    IF ut \notin {"admin", "customer"}
    THEN answer(400, "Invalid user type. Allowed values: 'admin', 'customer'.", <<>>)
    ELSE IF ut = "customer"
    THEN LET policies_data == OffsetLimit(policy_ids, offset, size) IN
         IF policies_data = <<>>
         THEN answer(404, "No policies found on this page", <<>>)
         ELSE answer(200, "Policies retrieved successfully",
                     [i \in 1..Len(policies_data) |->
                        [policy_id |-> policies_data[i], customer_id |-> NoId]])
    ELSE LET joined == Concat([i \in 1..Len(policy_ids) |-> JoinRows(policy_ids[i])]) IN
         answer(200, "Policies retrieved successfully", OffsetLimit(joined, offset, size))

\* purchase_policy without the existing_assignment check
PurchaseChecks_NoDuplicateCheck(policy_data, token) ==
    LET auth == verify_user(token, "customer") IN
    IF auth.status # 200 THEN auth
    ELSE IF ~\E p \in db["policy"] : p.policy_id = policy_data.policy_id
    THEN Fail(404, "Policy not found")
    ELSE auth

\* The checks of purchase_policy before it writes
PurchaseChecks(policy_data, token) ==
    LET auth == verify_user(token, "customer") IN
    IF auth.status # 200 THEN auth
    ELSE IF ~\E p \in db["policy"] : p.policy_id = policy_data.policy_id
    THEN Fail(404, "Policy not found")
    ELSE IF db["customer"] = {}
    THEN Fail(404, "Customer not found")
    ELSE IF \E cp \in db["customer_policy"] :
                /\ cp.customer_id = auth.customer_id
                /\ cp.policy_id = policy_data.policy_id
    THEN Fail(400, "Policy already purchased by the customer")
    ELSE auth

NewCustomerPolicy(customer_id, policy_id) ==
    [id |-> NextId({cp.id : cp \in db["customer_policy"]}),
     customer_id |-> customer_id, policy_id |-> policy_id]

\* A purchase request handled with no other request in between
purchase_policy(policy_data, token) ==
    LET checked == PurchaseChecks(policy_data, token) IN
    IF checked.status # 200
    THEN /\ resp' = [op |-> "purchase_policy", token |-> token,
                     policy_id |-> policy_data.policy_id,
                     status |-> checked.status, detail |-> checked.detail]
         /\ UNCHANGED <<pyjwt, now, db, tokens, pending>>
    ELSE /\ db' = [db EXCEPT !["customer_policy"] =
                      @ \cup {NewCustomerPolicy(checked.customer_id,
                                                policy_data.policy_id)}]
         /\ resp' = [op |-> "purchase_policy", token |-> token,
                     policy_id |-> policy_data.policy_id, status |-> 201,
                     detail |-> "Policy purchased successfully",
                     customer_id |-> checked.customer_id]
         /\ UNCHANGED <<pyjwt, now, tokens, pending>>

\* The same handler in two steps, for requests served at the same time (each
\* request has its own session): the checks, lines 118-136 ...
purchase_policy_check(policy_data, token) ==
    LET checked == PurchaseChecks(policy_data, token) IN
    /\ Cardinality(pending) < MaxPending
    /\ checked.status = 200
    /\ pending' = pending \cup
            {[rid |-> NextId({r.rid : r \in pending}), token |-> token,
              customer_id |-> checked.customer_id,
              policy_id |-> policy_data.policy_id]}
    /\ resp' = NoResponse
    /\ UNCHANGED <<pyjwt, now, db, tokens>>

\* ... and the insert and commit, lines 139-153
purchase_policy_commit(request) ==
    /\ request \in pending
    /\ pending' = pending \ {request}
    /\ db' = [db EXCEPT !["customer_policy"] =
                 @ \cup {NewCustomerPolicy(request.customer_id, request.policy_id)}]
    /\ resp' = [op |-> "purchase_policy", token |-> request.token,
                policy_id |-> request.policy_id, status |-> 201,
                detail |-> "Policy purchased successfully",
                customer_id |-> request.customer_id]
    /\ UNCHANGED <<pyjwt, now, tokens>>

-----------------------------------------------------------------------------
(* customer_routes.py *)

\* An age that looks at the years only
Age_YearsOnly(dob, today) == today.year - dob.year

\* age = today.year - dob.year - ((today.month, today.day) < (dob.month, dob.day))
Age(dob, today) ==
    today.year - dob.year
      - (IF today.month < dob.month \/ (today.month = dob.month /\ today.day < dob.day)
         THEN 1 ELSE 0)

\* Amounts are kept exact: a factor 1 + n/100 in hundredths, a premium in
\* ten-thousandths. The code computes them in binary floating point, which
\* differs from the exact value by far less than one ten-thousandth.
\* base_premium * age_factor * interest_factor
PolicyPremium_Additive(base_premium, age, rate_of_interest) ==
    base_premium * (100 + age + rate_of_interest) * 100

PolicyPremium(base_premium, age, rate_of_interest) ==
    LET age_factor == 100 + age
        interest_factor == 100 + rate_of_interest
    IN base_premium * age_factor * interest_factor

\* round(x, 2) that cuts the digits off
Round2_Truncate(x) == {x \div 100}

\* round(x, 2) of an amount in ten-thousandths: the results, in hundredths, that
\* the float next to x can round to. Off a half it is the nearest hundredth; at
\* an exact half the float lies just below or just above, so either neighbour
Round2(x) ==
    LET q == x \div 100
        r == x % 100
    IN IF r > 50 THEN {q + 1} ELSE IF r < 50 THEN {q} ELSE {q, q + 1}

\* round(., 2) of each amount of a list
Round2Each(amounts) ==
    {f \in [1..Len(amounts) -> UNION {Round2(amounts[i]) : i \in 1..Len(amounts)}] :
        \A i \in 1..Len(amounts) : f[i] \in Round2(amounts[i])}

RECURSIVE SumSeq(_)
SumSeq(s) == IF s = <<>> THEN 0 ELSE Head(s) + SumSeq(Tail(s))

CustomerById(customer_id) == CHOOSE c \in db["customer"] : c.customer_id = customer_id

calculate_premium_by_policy_ids(policy_ids, rate_of_interest, token, today) ==
    LET request == [op |-> "calculate_premium_by_policy_ids", token |-> token,
                    policy_ids |-> policy_ids,
                    rate_of_interest |-> rate_of_interest, today |-> today]
        refuse(status, detail) ==
            /\ resp' = request @@ [status |-> status, detail |-> detail]
            /\ UNCHANGED <<pyjwt, now, db, tokens, pending>>
        auth == verify_user(token, "customer")
        wanted == {policy_ids[i] : i \in 1..Len(policy_ids)}
        \* Policy.policy_id.in_(policy_ids): each policy once
        policies == Ascending({p.policy_id : p \in db["policy"]} \cap wanted)
    IN
    IF auth.status # 200
    THEN refuse(auth.status, auth.detail)
    ELSE IF Len(policies) # Len(policy_ids)
    THEN /\ resp' = request @@
                    [status |-> 400, detail |-> "Invalid policy IDs provided",
                     invalid_policy_ids |->
                        SelectSeq(policy_ids,
                                  LAMBDA pid : pid \notin {policies[i] : i \in 1..Len(policies)})]
         /\ UNCHANGED <<pyjwt, now, db, tokens, pending>>
    ELSE IF \E i \in 1..Len(policies) : PolicyById(policies[i]).premium = 0
    THEN refuse(400, "Policy has no premium defined")
    ELSE LET age == Age(CustomerById(auth.customer_id).date_of_birth, today)
             amounts == [i \in 1..Len(policies) |->
                            PolicyPremium(PolicyById(policies[i]).premium, age,
                                          rate_of_interest)]
         IN
         /\ \E total \in Round2(SumSeq(amounts)), each \in Round2Each(amounts) :
               resp' = request @@
                    [status |-> 200, detail |-> "Premium calculated successfully",
                     customer_id |-> auth.customer_id, age |-> age,
                     total_premium |-> total,
                     policies |->
                        [i \in 1..Len(policies) |->
                            [policy_id |-> policies[i],
                             base_premium |-> PolicyById(policies[i]).premium,
                             calculated_premium |-> each[i]]]]
         /\ UNCHANGED <<pyjwt, now, db, tokens, pending>>

calculate_remaining_premium(premium_details, token, today) ==
    LET request == [op |-> "calculate_remaining_premium", token |-> token,
                    rate_of_interest |-> premium_details.rate_of_interest,
                    today |-> today]
        refuse(status, detail) ==
            /\ resp' = request @@ [status |-> status, detail |-> detail]
            /\ UNCHANGED <<pyjwt, now, db, tokens, pending>>
        auth == verify_user(token, "customer")
        mine == {cp \in db["customer_policy"] : cp.customer_id = auth.customer_id}
        rows == Ascending({cp.id : cp \in mine})
        policy_of(i) == PolicyById((CHOOSE cp \in mine : cp.id = rows[i]).policy_id)
    IN
    IF auth.status # 200
    THEN refuse(auth.status, auth.detail)
    ELSE IF mine = {}
    THEN refuse(404, "No policies found for the customer")
    ELSE IF \E i \in 1..Len(rows) : policy_of(i).premium = 0
    THEN refuse(400, "Policy has no premium defined")
    ELSE LET age == Age(CustomerById(auth.customer_id).date_of_birth, today)
             amounts == [i \in 1..Len(rows) |->
                            PolicyPremium(policy_of(i).premium, age,
                                          premium_details.rate_of_interest)]
         IN
         /\ \E total \in Round2(SumSeq(amounts)) :
               resp' = request @@
                    [status |-> 200, detail |-> "Premium calculated successfully",
                     customer_id |-> auth.customer_id, age |-> age,
                     policies |-> [i \in 1..Len(rows) |-> policy_of(i).policy_id],
                     total_premium |-> total]
         /\ UNCHANGED <<pyjwt, now, db, tokens, pending>>

\* Policy has no customer_id column: policy.customer_id raises AttributeError,
\* which `except Exception` turns into 500; no payment row is ever written
make_payment(payment, token) ==
    LET auth == verify_user(token, "customer")
        refuse(status, detail) ==
            /\ resp' = [op |-> "make_payment", token |-> token,
                        policy_id |-> payment.policy_id,
                        status |-> status, detail |-> detail]
            /\ UNCHANGED <<pyjwt, now, db, tokens, pending>>
    IN
    IF auth.status # 200
    THEN refuse(auth.status, auth.detail)
    ELSE IF ~\E p \in db["policy"] : p.policy_id = payment.policy_id
    THEN refuse(404, "Policy not found")
    ELSE refuse(500, "Internal server error")

download_receipt(payment_id, token) ==
    LET auth == verify_user(token, "customer")
        refuse(status, detail) ==
            /\ resp' = [op |-> "download_receipt", token |-> token,
                        payment_id |-> payment_id,
                        status |-> status, detail |-> detail]
            /\ UNCHANGED <<pyjwt, now, db, tokens, pending>>
    IN
    IF auth.status # 200
    THEN refuse(auth.status, auth.detail)
    ELSE IF ~\E p \in db["payment"] : p.payment_id = payment_id
    THEN refuse(404, "Payment not found")
    ELSE IF ~\E p \in db["policy"] :
                p.policy_id = (CHOOSE q \in db["payment"] : q.payment_id = payment_id).policy_id
    THEN refuse(404, "Policy not found")
    ELSE \* policy.customer_id: AttributeError
         refuse(500, "Internal server error")

-----------------------------------------------------------------------------
(* The arithmetic of the premium handlers on its own *)

\* policy_premium = base_premium * age_factor * interest_factor, for the
\* arguments that the state holds
apply_PolicyPremium ==
    /\ resp.op = "policy_premium_args"
    /\ resp' = [resp EXCEPT !.op = "policy_premium"] @@
                [policy_premium |->
                    PolicyPremium(resp.base_premium, resp.age, resp.rate_of_interest)]
    /\ UNCHANGED <<pyjwt, now, db, tokens, pending>>

\* age = today.year - dob.year - (...), for the arguments that the state holds
apply_Age ==
    /\ resp.op = "age_args"
    /\ resp' = [resp EXCEPT !.op = "age"] @@ [age |-> Age(resp.dob, resp.today)]
    /\ UNCHANGED <<pyjwt, now, db, tokens, pending>>

-----------------------------------------------------------------------------
(* utils.verify_user called on its own, and the clock *)

call_verify_user(token, user_type) ==
    /\ resp' = [op |-> "verify_user", user_type |-> user_type, token |-> token]
                 @@ verify_user(token, user_type)
    /\ UNCHANGED <<pyjwt, now, db, tokens, pending>>

\* A client throws a token away
discard_token(issued) ==
    /\ issued \in tokens
    /\ tokens' = tokens \ {issued}
    /\ resp' = NoResponse
    /\ UNCHANGED <<pyjwt, now, db, pending>>

Tick ==
    /\ now < MaxTime
    /\ now' = now + 1
    /\ resp' = NoResponse
    /\ UNCHANGED <<pyjwt, db, tokens, pending>>

-----------------------------------------------------------------------------
(* Inputs *)

UserA == [email |-> "a@x", password |-> "pw1", username |-> "ua", full_name |-> "A"]
UserB == [email |-> "b@x", password |-> "pw2", username |-> "ub", full_name |-> "B"]

Dob1 == [year |-> 1990, month |-> 6, day |-> 15]
Today1 == [year |-> 2024, month |-> 6, day |-> 14]
Today2 == [year |-> 2024, month |-> 6, day |-> 15]

CustA == UserA @@ [date_of_birth |-> Dob1, agent_id |-> NoId]
CustB == UserB @@ [date_of_birth |-> Dob1, agent_id |-> NoId]
\* the email of CustA with another password, username and name
CustA2 == [CustA EXCEPT !.password = "pw2", !.username = "ua2", !.full_name = "A2"]
\* a customer of agent 1
CustB1 == [CustB EXCEPT !.agent_id = 1]

Plan1 == [plan_name |-> "Life", plan_details |-> "life plans"]
Scheme1 == [scheme_name |-> "Term", scheme_details |-> "term schemes", plan_id |-> 1]
Policy1 ==
    [policy_details |-> "Term 10", scheme_id |-> 1, premium |-> 1000,
     date_issued |-> Today1, maturity_period |-> 10, policy_lapse_date |-> Today2]
Policy2 == [Policy1 EXCEPT !.policy_details = "Term 20", !.premium = 500]
\* the name of Policy1 with another premium
Policy1b == [Policy1 EXCEPT !.premium = 2000]
\* a premium whose product with the factors has more than two decimals
Policy3 == [Policy1 EXCEPT !.policy_details = "Term 30", !.premium = 9]
\* a policy without a premium
Policy0 == [Policy1 EXCEPT !.policy_details = "Term 0", !.premium = 0]

ForgedToken == [sub |-> "a@x", user_id |-> NoId, exp |-> MaxTime + 1, sig |-> "bad"]
NoSubToken == [sub |-> NoSub, user_id |-> NoId, exp |-> MaxTime + 1, sig |-> "ok"]
\* a request that carries no token at all
NoToken == [sub |-> NoSub, user_id |-> NoId, exp |-> 0, sig |-> "none"]

HeldTokens == {i.tok : i \in tokens}

-----------------------------------------------------------------------------
Init ==
    /\ now = 0
    /\ db = [t \in TableNames |-> {}]
    /\ tokens = {}
    /\ pending = {}
    /\ resp = NoResponse
    /\ pyjwt \in PyJwtReleases

(* Registration, login and token verification, with the clock *)
Next ==
    \/ Tick
    \/ \E t \in {"Admin", "manager"} : register_user(UserA, t)
    \/ \E u \in {CustA, CustB} : register_customer(u)
    \/ login_user(UserA, "customer")
    \/ \E u \in {CustA2, CustB}, tok \in HeldTokens : update_customer(1, u, tok)
    \/ \E tok \in HeldTokens \cup {ForgedToken, NoSubToken},
          t \in {"admin", "CUSTOMER", "employee"} : call_verify_user(tok, t)

Spec == Init /\ [][Next]_vars

(* The admin operations *)
AdminNext ==
    \/ register_user(UserA, "admin")
    \/ register_user(UserB, "employee")
    \/ \E tok \in HeldTokens \cup {ForgedToken} :
          \/ create_insurance_plan(Plan1, tok)
          \/ create_scheme(Scheme1, tok)
          \/ create_policy(Policy1, tok)
          \/ create_employee(UserB, tok)
          \/ update_employee(1, UserA, tok)
          \/ delete_employee(1, tok)
          \/ create_insurance_agent(UserA, tok)
          \/ update_insurance_agent(1, UserB, tok)
          \/ delete_insurance_agent(1, tok)
          \/ create_customer(CustB1, tok)
          \/ update_customer(1, CustA, tok)
          \/ delete_customer(1, tok)
          \/ calculate_commission([agent_id |-> 1, commission_rate |-> 10], tok)

AdminSpec == Init /\ [][AdminNext]_vars

(* Policies created by the admin and purchased by two customers, one request *)
(* at a time                                                                  *)
PolicyNext ==
    \/ register_user(UserA, "admin")
    \/ \E u \in {CustA, CustB} : register_customer(u)
    \/ \E issued \in tokens : discard_token(issued)
    \/ \E tok \in HeldTokens :
          \/ create_insurance_plan(Plan1, tok)
          \/ create_scheme(Scheme1, tok)
          \/ \E p \in {Policy1, Policy2} : create_policy(p, tok)
          \/ \E pid \in 1..3 : purchase_policy([policy_id |-> pid], tok)

PolicySpec == Init /\ [][PolicyNext]_vars

(* A customer's requests from registration to the receipt *)
FlowNext ==
    \/ register_user(UserA, "admin")
    \/ register_customer(CustA)
    \/ login_user(UserA, "customer")
    \/ \E tok \in HeldTokens :
          \/ create_insurance_plan(Plan1, tok)
          \/ create_scheme(Scheme1, tok)
          \/ create_policy(Policy1, tok)
    \/ \E tok \in HeldTokens \cup {NoToken}, t \in {"admin", "customer", "agent"} :
          get_policies(t, 1, 1, tok)
    \/ \E tok \in HeldTokens :
          \/ purchase_policy([policy_id |-> 1], tok)
          \/ calculate_remaining_premium([rate_of_interest |-> 5], tok, Today1)
          \/ calculate_premium_by_policy_ids(<<1>>, 5, tok, Today2)
          \/ make_payment([policy_id |-> 1, amount |-> 1365], tok)
          \/ download_receipt(1, tok)

FlowSpec == Init /\ [][FlowNext]_vars

(* Purchase requests that overlap *)
ConcNext ==
    \/ register_user(UserA, "admin")
    \/ register_customer(CustA)
    \/ \E tok \in HeldTokens :
          \/ create_insurance_plan(Plan1, tok)
          \/ create_scheme(Scheme1, tok)
          \/ create_policy(Policy1, tok)
          \/ purchase_policy([policy_id |-> 1], tok)
          \/ purchase_policy_check([policy_id |-> 1], tok)
    \/ \E request \in pending : purchase_policy_commit(request)

ConcSpec == Init /\ [][ConcNext]_vars

(* Principals made and changed by requests that overlap *)
UserNext ==
    \/ register_user(UserA, "admin")
    \/ \E u \in {CustA, CustA2} : register_customer_check(u)
    \/ \E request \in pending : register_customer_commit(request)
    \/ \E tok \in HeldTokens :
          \/ create_customer(CustB, tok)
          \/ \E id \in 1..2 : update_customer(id, CustA2, tok)
          \/ \E u \in {UserA, UserB} : create_employee(u, tok)
          \/ update_employee(2, UserA, tok)
          \/ create_insurance_agent(UserA, tok)
          \/ update_insurance_agent(1, UserB, tok)

UserSpec == Init /\ [][UserNext]_vars

(* Commission of an agent whose customers buy policies *)
CommissionNext ==
    \/ register_user(UserA, "admin")
    \/ \E u \in {CustA, CustB1} : register_customer(u)
    \/ \E tok \in HeldTokens :
          \/ create_insurance_agent(UserB, tok)
          \/ create_insurance_plan(Plan1, tok)
          \/ create_scheme(Scheme1, tok)
          \/ create_policy(Policy1, tok)
          \/ purchase_policy([policy_id |-> 1], tok)
          \/ \E agent_id \in 1..2 :
                calculate_commission([agent_id |-> agent_id,
                                      commission_rate |-> 10], tok)

CommissionSpec == Init /\ [][CommissionNext]_vars

(* Premiums of the policies that two customers bought *)
PremiumNext ==
    \/ register_user(UserA, "admin")
    \/ \E u \in {CustA, CustB} : register_customer(u)
    \/ \E issued \in tokens : discard_token(issued)
    \/ \E tok \in HeldTokens :
          \/ create_insurance_plan(Plan1, tok)
          \/ create_scheme(Scheme1, tok)
          \/ \E p \in {Policy3, Policy0} : create_policy(p, tok)
          \/ \E pid \in 1..2 : purchase_policy([policy_id |-> pid], tok)
          \/ \E rate \in {7, 50} :
                calculate_remaining_premium([rate_of_interest |-> rate], tok, Today1)
          \/ \E ids \in {<<>>, <<1>>, <<1, 2>>} :
                calculate_premium_by_policy_ids(ids, 7, tok, Today1)

PremiumSpec == Init /\ [][PremiumNext]_vars

(* Everything that happens around a policy once it exists *)
TermsNext ==
    \/ register_user(UserA, "admin")
    \/ register_customer(CustB1)
    \/ \E tok \in HeldTokens :
          \/ create_insurance_agent(UserA, tok)
          \/ create_insurance_plan(Plan1, tok)
          \/ create_scheme(Scheme1, tok)
          \/ \E d \in {Policy1, Policy1b, Policy3} : create_policy(d, tok)
          \/ purchase_policy([policy_id |-> 1], tok)
          \/ calculate_remaining_premium([rate_of_interest |-> 5], tok, Today1)
          \/ calculate_premium_by_policy_ids(<<1>>, 5, tok, Today2)
          \/ make_payment([policy_id |-> 1, amount |-> 1365], tok)
          \/ calculate_commission([agent_id |-> 1, commission_rate |-> 10], tok)
          \/ update_customer(1, CustB, tok)
          \/ delete_customer(1, tok)
          \/ delete_insurance_agent(1, tok)

TermsSpec == Init /\ [][TermsNext]_vars

(* Tokens of three roles presented for three roles, with the clock *)
RoleNext ==
    \/ Tick
    \/ \E t \in {"admin", "employee"} : register_user(UserA, t)
    \/ register_customer(CustA)
    \/ \E tok \in HeldTokens : update_customer(1, CustB, tok)
    \/ \E tok \in HeldTokens \cup {ForgedToken},
          t \in {"admin", "customer", "employee"} : call_verify_user(tok, t)

RoleSpec == Init /\ [][RoleNext]_vars

(* Two customers, one policy, and the payments for it *)
PaymentNext ==
    \/ register_user(UserA, "admin")
    \/ \E u \in {CustA, CustB} : register_customer(u)
    \/ \E issued \in tokens : discard_token(issued)
    \/ \E tok \in HeldTokens :
          \/ create_insurance_plan(Plan1, tok)
          \/ create_scheme(Scheme1, tok)
          \/ create_policy(Policy1, tok)
          \/ purchase_policy([policy_id |-> 1], tok)
          \/ \E pid \in 1..2 : make_payment([policy_id |-> pid, amount |-> 1365], tok)
          \/ download_receipt(1, tok)

PaymentSpec == Init /\ [][PaymentNext]_vars

(* The service started on a store that holds two customers, a policy that
   customer 1 purchased and a payment of customer 1 for it *)
StoredRows ==
    [t \in TableNames |->
        CASE t = "customer" ->
                {NewCustomer(1, CustA, hash_password(CustA.password)),
                 NewCustomer(2, CustB, hash_password(CustB.password))}
          [] t = "insurance_plan" ->
                {[plan_id |-> 1, plan_name |-> Plan1.plan_name,
                  plan_details |-> Plan1.plan_details]}
          [] t = "scheme" ->
                {[scheme_id |-> 1, scheme_name |-> Scheme1.scheme_name,
                  scheme_details |-> Scheme1.scheme_details,
                  plan_id |-> Scheme1.plan_id]}
          [] t = "policy" -> {Policy1 @@ [policy_id |-> 1]}
          [] t = "customer_policy" ->
                {[id |-> 1, customer_id |-> 1, policy_id |-> 1]}
          [] t = "payment" ->
                {[payment_id |-> 1, customer_id |-> 1, policy_id |-> 1,
                  amount |-> 1365, payment_date |-> Today1]}
          [] OTHER -> {}]

ReceiptInit ==
    /\ now = 0
    /\ db = StoredRows
    /\ tokens = {}
    /\ pending = {}
    /\ resp = NoResponse
    /\ pyjwt \in PyJwtReleases

ReceiptNext ==
    \/ Tick
    \/ \E u \in {UserA, UserB} : login_user(u, "customer")
    \/ \E issued \in tokens : discard_token(issued)
    \/ \E tok \in HeldTokens, payment_id \in 1..2 : download_receipt(payment_id, tok)

ReceiptSpec == ReceiptInit /\ [][ReceiptNext]_vars

(* Plans, schemes and policies created by requests that overlap *)
CatalogNext ==
    \/ register_user(UserA, "admin")
    \/ \E tok \in HeldTokens \cup {ForgedToken} :
          \/ create_insurance_plan(Plan1, tok)
          \/ create_insurance_plan_check(Plan1, tok)
          \/ create_scheme(Scheme1, tok)
          \/ \E d \in {Policy1, Policy1b} : create_policy(d, tok)
    \/ \E request \in pending : create_insurance_plan_commit(request)

CatalogSpec == Init /\ [][CatalogNext]_vars

(* Premiums asked for lists of policy ids: all there, some missing, repeated *)
IdLists == {<<1>>, <<1, 2>>, <<2, 1>>, <<1, 1>>, <<3, 1, 3>>}

IdsNext ==
    \/ register_user(UserA, "admin")
    \/ register_customer(CustB)
    \/ \E tok \in HeldTokens :
          \/ create_insurance_plan(Plan1, tok)
          \/ create_scheme(Scheme1, tok)
          \/ \E d \in {Policy1, Policy2} : create_policy(d, tok)
          \/ \E ids \in IdLists :
                calculate_premium_by_policy_ids(ids, 5, tok, Today1)

IdsSpec == Init /\ [][IdsNext]_vars

(* The listing read page by page while policies are created and purchased *)
ListNext ==
    \/ register_user(UserA, "admin")
    \/ \E u \in {CustA, CustB} : register_customer(u)
    \/ \E issued \in tokens : discard_token(issued)
    \/ \E tok \in HeldTokens :
          \/ create_insurance_plan(Plan1, tok)
          \/ create_scheme(Scheme1, tok)
          \/ \E d \in {Policy1, Policy2} : create_policy(d, tok)
          \/ \E pid \in 1..2 : purchase_policy([policy_id |-> pid], tok)
    \/ \E t \in {"admin", "customer"}, page \in 1..3, size \in 1..2 :
          get_policies(t, page, size, NoToken)

ListSpec == Init /\ [][ListNext]_vars

(* Every operation that answers with a principal's data *)
DataNext ==
    \/ register_user(UserA, "admin")
    \/ register_customer(CustA)
    \/ \E t \in {"admin", "customer"} : login_user(UserA, t)
    \/ \E tok \in HeldTokens :
          \/ create_employee(UserB, tok)
          \/ create_insurance_agent(UserB, tok)
          \/ create_customer(CustB, tok)
          \/ update_employee(1, UserA, tok)
          \/ update_insurance_agent(1, UserA, tok)
          \/ \E id \in 1..2 : update_customer(id, CustA2, tok)

DataSpec == Init /\ [][DataNext]_vars

(* The premium formula and the age, over ranges of inputs *)
Premiums == 0..MaxPremium \cup {1000}
Ages == 0..MaxAge
Rates == 0..MaxRate

IsLeap(year) == year % 4 = 0 /\ (year % 100 # 0 \/ year % 400 = 0)

DaysIn(year, month) ==
    IF month = 2 THEN (IF IsLeap(year) THEN 29 ELSE 28)
    ELSE IF month \in {4, 6, 9, 11} THEN 30 ELSE 31

\* The dates of some months of a few years, the turns of February included
Dates ==
    {d \in [year : 2000..(2000 + MaxYears), month : {1, 2, 3, 6, 12},
            day : {1, 15, 28, 29, 30, 31}] : d.day <= DaysIn(d.year, d.month)}

CalcInit ==
    /\ now = 0
    /\ db = [t \in TableNames |-> {}]
    /\ tokens = {}
    /\ pending = {}
    /\ pyjwt \in PyJwtReleases
    /\ resp \in
          {[op |-> "policy_premium_args", status |-> 0, detail |-> "",
            base_premium |-> b, age |-> a, rate_of_interest |-> r] :
                b \in Premiums, a \in Ages, r \in Rates}
          \cup
          {[op |-> "age_args", status |-> 0, detail |-> "",
            dob |-> dob, today |-> today] : dob \in Dates, today \in Dates}

CalcNext ==
    \/ apply_PolicyPremium
    \/ apply_Age

CalcSpec == CalcInit /\ [][CalcNext]_vars

-----------------------------------------------------------------------------
(* Properties *)

\* A token that is correctly signed, unexpired and carries a subject
GoodToken(tok) == tok.sig = "ok" /\ ~Expired(tok) /\ tok.sub # NoSub

HasEmail(table, email) == \E u \in db[table] : u.email = email

\* The expiry instant of a token issued at `iat`: issue time plus lifetime,
\* cut down to a whole second
ExpiryOf(i) ==
    (i.iat + Expire(i.kind)) - ((i.iat + Expire(i.kind)) % TicksPerSecond)

\* C1: verify_user(token, db, "admin") answers 403 (access denied) for every
\* correctly signed, unexpired token whose subject has a row in the customer
\* table and none in the admin table.
C1_CustomerTokenDeniedAsAdmin ==
    ( /\ resp.op = "verify_user"
      /\ Lower(resp.user_type) = "admin"
      /\ GoodToken(resp.token)
      /\ HasEmail("customer", resp.token.sub)
      /\ ~HasEmail("admin", resp.token.sub) )
    => resp.status = 403

C1_Witness ==
    /\ resp.op = "verify_user"
    /\ Lower(resp.user_type) = "admin"
    /\ resp.status = 403
    /\ GoodToken(resp.token)
    /\ \E i \in tokens : i.tok = resp.token /\ i.role = "customer"
    /\ HasEmail("customer", resp.token.sub)
    /\ ~HasEmail("admin", resp.token.sub)

\* C2 as claimed: a token issued at t0 with lifetime T to a principal that
\* stays in the store verifies at every now < t0 + T and fails with "Token has
\* expired" at every now >= t0 + T.
C2_ExpiresAtIssuePlusTtl ==
    \A i \in tokens :
        ( /\ resp.op = "verify_user"
          /\ resp.token = i.tok
          /\ Lower(resp.user_type) = i.role
          /\ HasEmail(i.role, i.tok.sub) )
        => IF now < i.iat + Expire(i.kind)
           THEN resp.status = 200
           ELSE resp.status = 401 /\ resp.detail = "Token has expired"

\* C2 amended: the token verifies at every now before its exp claim, which is
\* t0 + T cut down to a whole second, and fails with "Token has expired" at
\* every now from one second after the exp claim on; in the second between,
\* the PyJWT release decides, and no other answer is given.
C2_ExpiresAtWholeSecond ==
    \A i \in tokens :
        ( /\ resp.op = "verify_user"
          /\ resp.token = i.tok
          /\ Lower(resp.user_type) = i.role
          /\ HasEmail(i.role, i.tok.sub) )
        => /\ now < ExpiryOf(i) => resp.status = 200
           /\ now >= ExpiryOf(i) + TicksPerSecond =>
                  resp.status = 401 /\ resp.detail = "Token has expired"
           /\ \/ resp.status = 200
              \/ resp.status = 401 /\ resp.detail = "Token has expired"

\* A token issued off a second boundary is refused before issue time + lifetime
C2_Witness ==
    \E i \in tokens :
        /\ resp.op = "verify_user"
        /\ resp.token = i.tok
        /\ Lower(resp.user_type) = i.role
        /\ HasEmail(i.role, i.tok.sub)
        /\ ExpiryOf(i) <= now
        /\ now < i.iat + Expire(i.kind)
        /\ resp.status = 401
        /\ resp.detail = "Token has expired"

\* C3: two purchase_policy calls in sequence by customer c for an existing
\* policy p: the call made while no row (c, p) exists succeeds, the call made
\* while one exists fails with 400 "Policy already purchased by the customer",
\* and after either call the customer_policy table holds exactly one row (c, p).
C3_PurchaseTwice ==
    [][ \A c \in db["customer"] :
          LET rows(d) == {cp \in d["customer_policy"] :
                            /\ cp.customer_id = c.customer_id
                            /\ cp.policy_id = resp'.policy_id}
          IN
          ( /\ resp'.op = "purchase_policy"
            /\ GoodToken(resp'.token)
            /\ c.email = resp'.token.sub
            /\ \E p \in db["policy"] : p.policy_id = resp'.policy_id )
          => /\ rows(db) = {} => resp'.status = 201
             /\ rows(db) # {} =>
                   /\ resp'.status = 400
                   /\ resp'.detail = "Policy already purchased by the customer"
             /\ Cardinality(rows(db')) = 1
      ]_vars

C3_Witness ==
    /\ resp.op = "purchase_policy"
    /\ resp.status = 400
    /\ resp.detail = "Policy already purchased by the customer"
    /\ \E c \in db["customer"] :
          /\ c.email = resp.token.sub
          /\ Cardinality({cp \in db["customer_policy"] :
                            /\ cp.customer_id = c.customer_id
                            /\ cp.policy_id = resp.policy_id}) = 1

\* C4: in every reachable state, overlapping purchase requests included, the
\* customer_policy table holds at most one row per (customer_id, policy_id).
C4_AtMostOneRowPerPair ==
    \A x \in db["customer_policy"], y \in db["customer_policy"] :
        (x.customer_id = y.customer_id /\ x.policy_id = y.policy_id) => x = y

\* C5: once no row with the token's subject email is in the required role's
\* table, verify_user answers 403 for that unexpired, correctly signed token,
\* also when the token was issued for that very role.
C5_RoleCheckOnCurrentStore ==
    \A i \in tokens :
        ( /\ resp.op = "verify_user"
          /\ resp.token = i.tok
          /\ Lower(resp.user_type) = i.role
          /\ i.role \in {"admin", "customer"}
          /\ GoodToken(i.tok)
          /\ ~HasEmail(i.role, i.tok.sub) )
        => resp.status = 403

\* The customer a token was issued to now has another email
C5_Witness ==
    \E i \in tokens :
        /\ resp.op = "verify_user"
        /\ resp.token = i.tok
        /\ Lower(resp.user_type) = i.role
        /\ i.role = "customer"
        /\ GoodToken(i.tok)
        /\ ~HasEmail("customer", i.tok.sub)
        /\ \E c \in db["customer"] :
              c.customer_id = i.snap.customer_id /\ c.email # i.snap.email
        /\ resp.status = 403

AdminOps ==
    {"create_insurance_plan", "create_scheme", "create_policy",
     "create_employee", "update_employee", "delete_employee",
     "create_insurance_agent", "update_insurance_agent", "delete_insurance_agent",
     "create_customer", "update_customer", "delete_customer",
     "calculate_commission"}

\* C7: every admin operation called with a token that is expired, malformed or
\* whose subject has no admin row answers 401 or 403 and leaves every table
\* unchanged.
C7_AdminOpsRejectBadToken ==
    [][ ( /\ resp'.op \in AdminOps
          /\ ~(GoodToken(resp'.token) /\ HasEmail("admin", resp'.token.sub)) )
        => (resp'.status \in {401, 403} /\ db' = db)
      ]_vars

\* C8: get_policies answers with policy data only to a caller whose token
\* verifies for the role named in user_type.
C8_ListRequiresRole ==
    (resp.op = "get_policies" /\ resp.status = 200)
    => /\ GoodToken(resp.token)
       /\ HasEmail(Lower(resp.user_type), resp.token.sub)

\* C9: every step of register -> login -> purchase -> premium -> payment ->
\* receipt succeeds when it is given the token, policy_id and payment_id that
\* the earlier steps returned.
C9_EndToEndFlow ==
    \A c \in db["customer"] :
        LET owns(policy_id) ==
                \E cp \in db["customer_policy"] :
                    cp.customer_id = c.customer_id /\ cp.policy_id = policy_id
            mine == /\ GoodToken(resp.token)
                    /\ c.email = resp.token.sub
        IN
        /\ ( /\ resp.op = "purchase_policy"
              /\ mine
              /\ \E p \in db["policy"] : p.policy_id = resp.policy_id )
            => owns(resp.policy_id)
        /\ ( /\ resp.op = "calculate_remaining_premium"
              /\ mine
              /\ \E p \in db["policy"] : owns(p.policy_id) )
            => resp.status = 200
        /\ (resp.op = "make_payment" /\ mine /\ owns(resp.policy_id))
            => resp.status \in {200, 201}
        /\ ( /\ resp.op = "download_receipt"
              /\ mine
              /\ \E pay \in db["payment"] : pay.customer_id = c.customer_id )
            => resp.status = 200

RegisterOps ==
    {"register_user", "register_customer", "create_employee",
     "create_insurance_agent", "create_customer"}

\* The table a registration writes to
RegisterTable(r) ==
    CASE r.op = "register_user" -> Lower(r.user_type)
      [] r.op = "create_employee" -> "employee"
      [] r.op = "create_insurance_agent" -> "insurance_agent"
      [] OTHER -> "customer"

\* C10: a registration with an email that is already in the role's table
\* answers 400 "Email already registered", adds no row and issues no token.
C10_DuplicateEmailRejected ==
    [][ ( /\ resp'.op \in RegisterOps
          /\ RegisterTable(resp') \in TableNames
          /\ resp'.op \in {"register_user", "register_customer"}
                \/ (GoodToken(resp'.token) /\ HasEmail("admin", resp'.token.sub))
          /\ HasEmail(RegisterTable(resp'), resp'.email) )
        => /\ resp'.status = 400
           /\ resp'.detail = "Email already registered"
           /\ db' = db
           /\ tokens' = tokens
      ]_vars

PrincipalTables == {"admin", "employee", "insurance_agent", "customer"}

\* C11: in every reachable state, after any sequence or interleaving of
\* registrations, admin creates and admin updates, no two rows of one principal
\* table have the same email.
C11_EmailUnique ==
    \A t \in PrincipalTables :
        \A x \in db[t], y \in db[t] : x.email = y.email => x = y

\* A registration passed its email query, another customer took the email
\* (under another username) before it committed, and the store refused it
C11_Witness ==
    /\ resp.op = "register_customer"
    /\ resp.status = 500
    /\ \E c \in db["customer"] :
          c.email = resp.email /\ c.username # resp.username
    /\ C11_EmailUnique

\* An admin's token that verifies
AdminToken(tok) == GoodToken(tok) /\ HasEmail("admin", tok.sub)

CustomersOf(agent_id) == {c \in db["customer"] : c.agent_id = agent_id}

\* The assignments of policies to the customers of an agent
AssignmentsOf(agent_id) ==
    {cp \in db["customer_policy"] :
        \E c \in CustomersOf(agent_id) : c.customer_id = cp.customer_id}

\* C12: calculate_commission answers 404 agent-not-found when the agent id has
\* no row, else 404 no-customers when the agent has no customer, else 404
\* no-policies when none of the agent's customers has a policy; in the three
\* cases no commission row is created.
C12_CommissionNotFoundOrder ==
    [][ ( /\ resp'.op = "calculate_commission"
          /\ AdminToken(resp'.token)
          /\ AssignmentsOf(resp'.agent_id) = {} )
        => /\ resp'.status = 404
           /\ db'["commission"] = db["commission"]
           /\ resp'.detail =
                 IF ~\E a \in db["insurance_agent"] : a.agent_id = resp'.agent_id
                 THEN "Insurance agent not found"
                 ELSE IF CustomersOf(resp'.agent_id) = {}
                 THEN "No customers found for this agent"
                 ELSE "No policies found for this agent's customers"
      ]_vars

\* C13: a calculate_commission run for an agent whose customers have policies
\* succeeds and appends exactly one commission row per such policy, with amount
\* premium x rate / 100, and leaves the rows that were there as they were.
C13_CommissionRowsAppended ==
    [][ ( /\ resp'.op = "calculate_commission"
          /\ AdminToken(resp'.token)
          /\ AssignmentsOf(resp'.agent_id) # {} )
        => /\ resp'.status = 200
           /\ db["commission"] \subseteq db'["commission"]
           /\ \A cp \in AssignmentsOf(resp'.agent_id) :
                 Cardinality(
                    {r \in db'["commission"] \ db["commission"] :
                        /\ r.agent_id = resp'.agent_id
                        /\ r.policy_id = cp.policy_id
                        /\ r.commission_amount * 100 =
                              PolicyById(cp.policy_id).premium * resp'.commission_rate}) = 1
      ]_vars

\* The customer that a verifying token belongs to
CustomerOf(tok) == CHOOSE c \in db["customer"] : c.email = tok.sub

CustomerToken(tok) == GoodToken(tok) /\ HasEmail("customer", tok.sub)

\* C14: a premium calculation over no policies fails: calculate_remaining_premium
\* for a customer without an assigned policy answers 404 "No policies found
\* for the customer", and calculate_premium_by_policy_ids with an empty
\* policy_ids list fails too instead of returning a total.
C14_NoPoliciesFails ==
    /\ ( /\ resp.op = "calculate_remaining_premium"
          /\ CustomerToken(resp.token)
          /\ ~\E cp \in db["customer_policy"] :
                 cp.customer_id = CustomerOf(resp.token).customer_id )
        => /\ resp.status = 404
           /\ resp.detail = "No policies found for the customer"
    /\ ( /\ resp.op = "calculate_premium_by_policy_ids"
          /\ CustomerToken(resp.token)
          /\ resp.policy_ids = <<>> )
        => resp.status \in {400, 404}

\* The assignments of policies to the customer of a token
MyAssignments(tok) ==
    {cp \in db["customer_policy"] : cp.customer_id = CustomerOf(tok).customer_id}

\* The sum, in ten-thousandths, of base x (1 + age/100) x (1 + rate/100) over
\* assignment rows
RECURSIVE SumOfPremiums(_, _, _)
SumOfPremiums(rows, age, rate) ==
    IF rows = {} THEN 0
    ELSE LET cp == CHOOSE x \in rows : TRUE IN
         PolicyById(cp.policy_id).premium * (100 + age) * (100 + rate)
           + SumOfPremiums(rows \ {cp}, age, rate)

\* The exact sum that a calculate_remaining_premium response is about
ExactTotal ==
    SumOfPremiums(MyAssignments(resp.token),
                  Age(CustomerOf(resp.token).date_of_birth, resp.today),
                  resp.rate_of_interest)

MissingPremium ==
    \E cp \in MyAssignments(resp.token) : PolicyById(cp.policy_id).premium = 0

OnOrBefore(d1, d2) ==
    \/ d1.year < d2.year
    \/ d1.year = d2.year /\ d1.month < d2.month
    \/ d1.year = d2.year /\ d1.month = d2.month /\ d1.day <= d2.day

\* The n-th anniversary of a date (for 29 February, the day after 28 February)
Anniversary(dob, n) == [dob EXCEPT !.year = @ + n]

\* The whole years from dob to today: the last anniversary that today reached
WholeYears(dob, today) ==
    CHOOSE n \in -(MaxYears + 1)..(MaxYears + 1) :
        /\ OnOrBefore(Anniversary(dob, n), today)
        /\ ~OnOrBefore(Anniversary(dob, n + 1), today)

\* C17: for every date of birth and current date of the calendar range, the age
\* is today.year - dob.year, less one when (today.month, today.day) is before
\* (dob.month, dob.day), and that is the number of whole years from the date of
\* birth to today, for a 29 February birthday too.
C17_AgeIsWholeYears ==
    resp.op = "age"
    => /\ resp.age =
             resp.today.year - resp.dob.year
               - (IF \/ resp.today.month < resp.dob.month
                     \/ /\ resp.today.month = resp.dob.month
                        /\ resp.today.day < resp.dob.day
                  THEN 1 ELSE 0)
       /\ resp.age = WholeYears(resp.dob, resp.today)

\* Born on 29 February, seen on 28 February of a later year that is no leap year
C17_Witness ==
    /\ resp.op = "age"
    /\ resp.dob.month = 2 /\ resp.dob.day = 29
    /\ resp.today.month = 2 /\ resp.today.day = 28
    /\ ~IsLeap(resp.today.year)
    /\ resp.today.year > resp.dob.year
    /\ resp.age = resp.today.year - resp.dob.year - 1

C19_TokenFailuresFirst ==
    resp.op = "verify_user"
    => /\ resp.token.sig # "ok" =>
              resp.status = 401 /\ resp.detail = "Invalid token"
       /\ (resp.token.sig = "ok" /\ Expired(resp.token)) =>
              resp.status = 401 /\ resp.detail = "Token has expired"
       /\ (resp.token.sig = "ok" /\ ~Expired(resp.token) /\ resp.token.sub = NoSub) =>
              resp.status = 401 /\ resp.detail = "Invalid token: email missing"

\* An expired token shown for a role that verify_user does not know
C19_Witness ==
    /\ resp.op = "verify_user"
    /\ Lower(resp.user_type) \notin {"admin", "customer"}
    /\ resp.token.sig = "ok"
    /\ Expired(resp.token)
    /\ resp.status = 401
    /\ resp.detail = "Token has expired"

C21_DeleteCustomerSucceeds ==
    [][ ( /\ resp'.op = "delete_customer"
          /\ AdminToken(resp'.token)
          /\ \E c \in db["customer"] : c.customer_id = resp'.customer_id )
        => /\ resp'.status = 200
           /\ db'["customer"] =
                 {c \in db["customer"] : c.customer_id # resp'.customer_id}
      ]_vars

DataOps ==
    {"register_user", "register_customer", "login_user",
     "create_employee", "create_insurance_agent", "create_customer",
     "update_employee", "update_insurance_agent", "update_customer"}

\* C22: no response of a register, login or admin create/update operation
\* carries a password or a password hash: the response has no password field,
\* and its data field is a stored row of a principal table with every column
\* of that row except password.
C22_NoPasswordInResponse ==
    resp.op \in DataOps =>
        /\ "password" \notin DOMAIN resp
        /\ "data" \in DOMAIN resp =>
              /\ "password" \notin DOMAIN resp.data
              /\ \E t \in PrincipalTables : \E row \in db[t] :
                    /\ DOMAIN resp.data = (DOMAIN row) \ {"password"}
                    /\ \A c \in DOMAIN resp.data : resp.data[c] = row[c]

\* a login answered with the data of a customer whose row holds a hash
C22_Witness ==
    /\ resp.op = "login_user"
    /\ "data" \in DOMAIN resp
    /\ \E row \in db["customer"] :
          /\ row.email = resp.data.email
          /\ row.password = hash_password("pw1")

Terms(p) == <<p.premium, p.date_issued, p.maturity_period, p.policy_lapse_date>>

\* C23: a policy's premium, date_issued, maturity_period and policy_lapse_date
\* are the values given to create_policy and stay so: no step changes or
\* removes a policy row, and a policy row appears only in a successful
\* create_policy, with the terms of its request.
C23_PolicyTermsImmutable ==
    [][ /\ db["policy"] \subseteq db'["policy"]
        /\ \A p \in db'["policy"] \ db["policy"] :
              /\ resp'.op = "create_policy"
              /\ resp'.status = 201
              /\ Terms(p) = Terms(resp'.policy_data)
      ]_vars

\* a purchased policy after a payment was attempted for it
C23_Witness ==
    /\ resp.op = "make_payment"
    /\ \E p \in db["policy"] : \E cp \in db["customer_policy"] :
          /\ cp.policy_id = p.policy_id
          /\ p.policy_id = resp.policy_id

\* C24 as claimed: a correctly signed, unexpired token with a subject is
\* accepted by verify_user for a role exactly when a row with the token's
\* subject email is in that role's table, whichever role the token was issued
\* to.
C24_AcceptedIffRowInRoleTable ==
    ( /\ resp.op = "verify_user"
      /\ GoodToken(resp.token)
      /\ Lower(resp.user_type) \in PrincipalTables )
    => ( resp.status = 200 <=> HasEmail(Lower(resp.user_type), resp.token.sub) )

\* C24, amended: that holds for the roles admin and customer; for every other
\* role such a token is refused with 400, whatever the role's table holds.
C24_AcceptedIffRowForAdminOrCustomer ==
    ( /\ resp.op = "verify_user"
      /\ GoodToken(resp.token) )
    => IF Lower(resp.user_type) \in {"admin", "customer"}
       THEN resp.status = 200 <=> HasEmail(Lower(resp.user_type), resp.token.sub)
       ELSE resp.status = 400

\* a token issued to a customer only, accepted as an admin's
C24_Witness ==
    /\ resp.op = "verify_user"
    /\ Lower(resp.user_type) = "admin"
    /\ resp.status = 200
    /\ \A i \in tokens : i.tok = resp.token => i.role = "customer"
    /\ \E i \in tokens : i.tok = resp.token

\* C25: verify_user does not tell the kinds of token apart: the refresh token
\* returned by login, presented for the role of its principal while the
\* principal's row exists, verifies at every time before its own expiry, the
\* times after the expiry of the access token issued with it included.
C25_RefreshTokenVerifies ==
    \A i \in tokens :
        ( /\ i.kind = "refresh"
          /\ resp.op = "verify_user"
          /\ resp.token = i.tok
          /\ Lower(resp.user_type) = i.role
          /\ HasEmail(i.role, i.tok.sub)
          /\ now < i.tok.exp )
        => /\ resp.status = 200
           /\ resp.email = i.tok.sub

\* the refresh token verifies after the lifetime of the access token of the
\* same login has passed
C25_Witness ==
    \E i \in tokens :
        /\ i.kind = "refresh"
        /\ resp.op = "verify_user"
        /\ resp.token = i.tok
        /\ resp.status = 200
        /\ now >= i.iat + Expire("access") + TicksPerSecond
        /\ \A j \in tokens : j.tok = i.tok => j.kind = "refresh"

\* C26: make_payment creates a payment row only when the calling customer
\* has an assignment of the paid policy, and the row carries the caller's
\* customer id; a payment for an existing policy that the caller does not own
\* is refused with 403 and creates no row.
C26_PaymentOnlyByOwner ==
    [][ ( resp'.op = "make_payment" /\ CustomerToken(resp'.token) ) =>
          LET me == CustomerOf(resp'.token).customer_id
              owns == \E cp \in db["customer_policy"] :
                          cp.customer_id = me /\ cp.policy_id = resp'.policy_id
          IN
          /\ \A p \in db'["payment"] \ db["payment"] :
                owns /\ p.customer_id = me
          /\ ( ~owns /\ \E p \in db["policy"] : p.policy_id = resp'.policy_id )
                => resp'.status = 403 /\ db' = db
      ]_vars

C28_CatalogNamesUnique ==
    /\ \A x \in db["insurance_plan"], y \in db["insurance_plan"] :
          x.plan_name = y.plan_name => x = y
    /\ \A x \in db["scheme"], y \in db["scheme"] :
          x.scheme_name = y.scheme_name => x = y
    /\ \A x \in db["policy"], y \in db["policy"] :
          x.policy_details = y.policy_details => x = y

\* The ids of the request that have no policy row, in the request's order
MissingIds ==
    SelectSeq(resp.policy_ids,
              LAMBDA pid : ~\E p \in db["policy"] : p.policy_id = pid)

\* C29: calculate_premium_by_policy_ids answers 400 "Invalid policy IDs
\* provided" exactly when some id of the list has no policy row, and then
\* reports exactly the missing ids; a list whose ids all exist, a list that
\* repeats an id included, is not refused for its ids, and an accepted list
\* yields one breakdown entry per listed id.
C29_InvalidIdsIffMissing ==
    ( resp.op = "calculate_premium_by_policy_ids" /\ CustomerToken(resp.token) )
    => LET invalid == resp.status = 400
                        /\ resp.detail = "Invalid policy IDs provided"
       IN
       /\ invalid <=> MissingIds # <<>>
       /\ invalid => resp.invalid_policy_ids = MissingIds
       /\ resp.status = 200 => Len(resp.policies) = Len(resp.policy_ids)

\* The number of rows of the listing: the policies for the customer view; for
\* the admin view one row per assignment and one per policy without assignment
ListingLength ==
    IF Lower(resp.user_type) = "customer"
    THEN Cardinality(db["policy"])
    ELSE Cardinality(db["customer_policy"])
         + Cardinality({p \in db["policy"] :
                          ~\E cp \in db["customer_policy"] : cp.policy_id = p.policy_id})

\* C30: for get_policies, total_pages is the number of non-empty pages of the
\* listing, in both views: every page up to total_pages holds its share of the
\* listing's rows and every page beyond total_pages is empty.
C30_TotalPagesCoverListing ==
    ( resp.op = "get_policies" /\ Lower(resp.user_type) \in {"admin", "customer"} )
    => LET n == ListingLength
           size == resp.page_size
           page == resp.current_page
       IN
       /\ resp.total_pages = (n + size - 1) \div size
       /\ page > resp.total_pages => resp.data = <<>>
       /\ page < resp.total_pages => Len(resp.data) = size
       /\ page = resp.total_pages => Len(resp.data) = n - (page - 1) * size

====
